---- MODULE Spec2Model ----
(***************************************************************************)
(* A model of excel_diff_highlighter.py: the character differ              *)
(* (find_char_differences, built on difflib.SequenceMatcher), the          *)
(* annotation builder (apply_blue_color_to_differences) and the cell loop  *)
(* of compare_and_highlight_excel.                                         *)
(*                                                                         *)
(* A text is a sequence of characters.  Indices into texts are Python's:   *)
(* 0-based and half-open, so the Python a[i] is At(a, i) = a[i + 1] here.  *)
(***************************************************************************)
EXTENDS Integers, Sequences, FiniteSets, TLC

\* ------------------------------------------------------------------ bounds
\* Longest text the differ is given in SpecDiff.
MaxLen == 3

Alphabet == {"a", "b", "c"}

Texts == UNION {[1..n -> Alphabet] : n \in 0..MaxLen}

\* The texts of the examples the documentation of the differ names.
cat == <<"c", "a", "t">>
bat == <<"b", "a", "t">>
cats == <<"c", "a", "t", "s">>

ExampleTexts == {cat, bat, cats}

\* Length of the long texts: the shortest on which difflib's autojunk acts.
LongLen == 200

\* One character followed by LongLen - 1 times "a".
LongText(ch) == [n \in 1..LongLen |-> IF n = 1 THEN ch ELSE "a"]

\* Long texts differing in their first character, or not at all.
LongPairs == {<<LongText("b"), LongText("c")>>, <<LongText("b"), LongText("b")>>}

\* The grid of a sheet of the compared documents has at most MaxRow rows and
\* MaxCol columns, and a document pair at most MaxChanges differing cells.
MaxRow == 1
MaxCol == 2
MaxChanges == 2

SheetNames == {"S1", "S2"}

\* The sheet lists of the new and of the old document: one sheet or two,
\* the first of the new document with or without a sheet of its name in the
\* old one.
NewSheetLists == {<<"S1">>, <<"S2", "S1">>}
OldSheetLists == {<<"S1">>, <<"S1", "S2">>}

\* MAX_CELL_VALUE_LENGTH
MAX_CELL_VALUE_LENGTH == 100

\* Length of the long cell value of the documentation's example.
LongValueLen == 150

\* The text of n times the character ch.
Filled(ch, n) == [k \in 1..n |-> ch]

\* Cell values at the limit of the summary, one over it, and well over it.
LongCellPairs ==
    {<<Filled("a", MAX_CELL_VALUE_LENGTH + 1), (<<"b">>)>>,
     <<(<<>>), Filled("a", LongValueLen)>>,
     <<Filled("b", MAX_CELL_VALUE_LENGTH), (<<>>)>>}

\* The (old text, new text) pairs a cell position can hold: unchanged (empty
\* or not), emptied, shortened, rewritten in part, and the long values
\* (one of them filling an empty cell).
CellPairs ==
    {<<(<<>>), (<<>>)>>, <<(<<"a">>), (<<"a">>)>>, <<(<<"a">>), (<<>>)>>,
     <<(<<"a", "b">>), (<<"a">>)>>, <<(<<"a", "b">>), (<<"c", "b">>)>>}
    \cup LongCellPairs

\* ------------------------------------------------------------ text helpers
At(s, i) == s[i + 1]

\* Python's s[lo:hi] for 0 <= lo <= hi <= len(s).
Slice(s, lo, hi) == SubSeq(s, lo + 1, hi)

RECURSIVE Concat(_)
Concat(ss) == IF ss = <<>> THEN <<>> ELSE Head(ss) \o Concat(Tail(ss))

Max(x, y) == IF x >= y THEN x ELSE y

Min(x, y) == IF x <= y THEN x ELSE y

Range(s) == {s[n] : n \in 1..Len(s)}

\* ------------------------------------------------- difflib.SequenceMatcher
\* SequenceMatcher(None, a, b) has no junk predicate and autojunk on: when b
\* has at least 200 elements, an element occurring more than len(b) // 100 + 1
\* times is "popular" and is left out of the index b2j.
IsPopular(b, ch) ==
    /\ Len(b) >= 200
    /\ Cardinality({j \in 1..Len(b) : b[j] = ch}) > (Len(b) \div 100) + 1

\* The elements of b that b2j indexes.
b2j(b) == {ch \in {b[j] : j \in 1..Len(b)} : ~IsPopular(b, ch)}

\* The entry newj2len[j] the scan of find_longest_match computes in row i:
\* the length of the longest run of indexed elements ending at a[i], b[j]
\* inside a[alo:], b[blo:]  (j2len.get(j - 1, 0) + 1, or absent = 0).  The
\* chain of entries j2len[j - 1], j2len[j - 2], ... is written as the longest
\* k whose k elements back from a[i], b[j] are equal and indexed.
RunEndingAt(a, b, keys, i, j, k) ==
    \A d \in 0..(k - 1) : At(a, i - d) = At(b, j - d) /\ At(b, j - d) \in keys

j2len(a, b, keys, alo, blo, i, j) ==
    IF i < alo \/ j < blo THEN 0
    ELSE CHOOSE k \in 0..(Min(i - alo, j - blo) + 1) :
            /\ RunEndingAt(a, b, keys, i, j, k)
            /\ (k = Min(i - alo, j - blo) + 1
                \/ ~RunEndingAt(a, b, keys, i, j, k + 1))

\* The widening loops after the scan: the match grows over equal elements
\* (popular ones included) to the left, then to the right, by the largest
\* number k of steps the loop condition allows.
EqualBefore(a, b, m, k) ==
    \A d \in 1..k : At(a, m[1] - d) = At(b, m[2] - d)

ExtendLeft(a, b, alo, blo, m) ==
    CHOOSE e \in {<<m[1] - k, m[2] - k, m[3] + k>> :
                     k \in 0..Min(m[1] - alo, m[2] - blo)} :
        /\ EqualBefore(a, b, m, m[1] - e[1])
        /\ (e[1] = alo \/ e[2] = blo \/ At(a, e[1] - 1) # At(b, e[2] - 1))

EqualAfter(a, b, m, k) ==
    \A d \in 0..(k - 1) : At(a, m[1] + m[3] + d) = At(b, m[2] + m[3] + d)

ExtendRight(a, b, ahi, bhi, m) ==
    CHOOSE e \in {<<m[1], m[2], m[3] + k>> :
                     k \in 0..Min(ahi - m[1] - m[3], bhi - m[2] - m[3])} :
        /\ EqualAfter(a, b, m, e[3] - m[3])
        /\ (e[1] + e[3] = ahi \/ e[2] + e[3] = bhi
            \/ At(a, e[1] + e[3]) # At(b, e[2] + e[3]))

\* find_longest_match: rows i ascending, in a row j ascending, and the best
\* triple replaced only by a strictly longer run: of the longest runs the one
\* ending first in a wins, and of those the one ending first in b.
find_longest_match(a, b, keys, alo, ahi, blo, bhi) ==
    LET ends == {e \in (alo..(ahi - 1)) \X (blo..(bhi - 1)) :
                    At(a, e[1]) = At(b, e[2]) /\ At(b, e[2]) \in keys}
        len(e) == j2len(a, b, keys, alo, blo, e[1], e[2])
        longest == {e \in ends : \A f \in ends : len(e) >= len(f)}
        first == CHOOSE e \in longest : \A f \in longest :
                     e[1] < f[1] \/ (e[1] = f[1] /\ e[2] <= f[2])
        best == IF ends = {} THEN <<alo, blo, 0>>
                ELSE <<first[1] - len(first) + 1, first[2] - len(first) + 1,
                       len(first)>>
    IN  ExtendRight(a, b, ahi, bhi, ExtendLeft(a, b, alo, blo, best))

\* The blocks get_matching_blocks collects and sorts: the longest match m of
\* the range, the blocks to its left and the blocks to its right.  Every
\* block on the left is before it in both texts, so sorting gives this order.
RECURSIVE MatchingBlocks(_, _, _, _, _, _, _)
BlocksAround(a, b, keys, alo, ahi, blo, bhi, m) ==
    IF m[3] = 0 THEN <<>>
    ELSE (IF alo < m[1] /\ blo < m[2]
          THEN MatchingBlocks(a, b, keys, alo, m[1], blo, m[2]) ELSE <<>>)
         \o <<m>>
         \o (IF m[1] + m[3] < ahi /\ m[2] + m[3] < bhi
             THEN MatchingBlocks(a, b, keys, m[1] + m[3], ahi, m[2] + m[3], bhi)
             ELSE <<>>)

MatchingBlocks(a, b, keys, alo, ahi, blo, bhi) ==
    BlocksAround(a, b, keys, alo, ahi, blo, bhi,
                 find_longest_match(a, b, keys, alo, ahi, blo, bhi))

\* Adjacent blocks are merged into one; cur is the block being grown.
RECURSIVE Collapse(_, _)
Collapse(blocks, cur) ==
    IF blocks = <<>>
    THEN IF cur[3] > 0 THEN <<cur>> ELSE <<>>
    ELSE LET nxt == Head(blocks)
         IN  IF cur[1] + cur[3] = nxt[1] /\ cur[2] + cur[3] = nxt[2]
             THEN Collapse(Tail(blocks), <<cur[1], cur[2], cur[3] + nxt[3]>>)
             ELSE (IF cur[3] > 0 THEN <<cur>> ELSE <<>>)
                  \o Collapse(Tail(blocks), nxt)

\* get_matching_blocks: the merged blocks and the closing (len(a), len(b), 0).
get_matching_blocks(a, b) ==
    Collapse(MatchingBlocks(a, b, b2j(b), 0, Len(a), 0, Len(b)), <<0, 0, 0>>)
    \o <<(<<Len(a), Len(b), 0>>)>>

\* get_opcodes: an opcode is <<tag, i1, i2, j1, j2>>.
RECURSIVE Opcodes(_, _, _)
Opcodes(blocks, i, j) ==
    IF blocks = <<>> THEN <<>>
    ELSE LET ai == Head(blocks)[1]
             bj == Head(blocks)[2]
             size == Head(blocks)[3]
             tag == IF i < ai /\ j < bj THEN "replace"
                    ELSE IF i < ai THEN "delete"
                    ELSE IF j < bj THEN "insert"
                    ELSE ""
         IN  (IF tag # "" THEN <<(<<tag, i, ai, j, bj>>)>> ELSE <<>>)
             \o (IF size > 0
                 THEN <<(<<"equal", ai, ai + size, bj, bj + size>>)>>
                 ELSE <<>>)
             \o Opcodes(Tail(blocks), ai + size, bj + size)

get_opcodes(a, b) == Opcodes(get_matching_blocks(a, b), 0, 0)

\* ---------------------------------------------------- find_char_differences
\* Differences with the delete branch appending its range as well.
RECURSIVE Differences_with_delete(_)
Differences_with_delete(ops) ==
    IF ops = <<>> THEN <<>>
    ELSE (IF Head(ops)[1] \in {"insert", "replace", "delete"}
          THEN <<(<<Head(ops)[4], Head(ops)[5]>>)>> ELSE <<>>)
         \o Differences_with_delete(Tail(ops))

\* Differences with the replace branch appending nothing.
RECURSIVE Differences_insert_only(_)
Differences_insert_only(ops) ==
    IF ops = <<>> THEN <<>>
    ELSE (IF Head(ops)[1] = "insert"
          THEN <<(<<Head(ops)[4], Head(ops)[5]>>)>> ELSE <<>>)
         \o Differences_insert_only(Tail(ops))

\* Differences with the insert branch appending nothing.
RECURSIVE Differences_replace_only(_)
Differences_replace_only(ops) ==
    IF ops = <<>> THEN <<>>
    ELSE (IF Head(ops)[1] = "replace"
          THEN <<(<<Head(ops)[4], Head(ops)[5]>>)>> ELSE <<>>)
         \o Differences_replace_only(Tail(ops))

\* The new-text ranges (j1, j2) of the insert and replace opcodes, in order.
RECURSIVE Differences(_)
Differences(ops) ==
    IF ops = <<>> THEN <<>>
    ELSE (IF Head(ops)[1] \in {"insert", "replace"}
          THEN <<(<<Head(ops)[4], Head(ops)[5]>>)>> ELSE <<>>)
         \o Differences(Tail(ops))

\* The set diff_types: the tags of the insert, delete and replace opcodes.
DiffTypes(ops) ==
    {ops[n][1] : n \in 1..Len(ops)} \cap {"insert", "delete", "replace"}

\* The if/elif chain testing 'insert' before 'replace'.
DiffType_insert_first(types) ==
    IF "insert" \in types THEN "insert"
    ELSE IF "replace" \in types THEN "replace"
    ELSE IF "delete" \in types THEN "delete"
    ELSE "equal"

\* The if/elif chain without its 'delete' branch.
DiffType_no_delete(types) ==
    IF "replace" \in types THEN "replace"
    ELSE IF "insert" \in types THEN "insert"
    ELSE "equal"

\* The final if/elif chain over diff_types.
DiffType(types) ==
    IF "replace" \in types THEN "replace"
    ELSE IF "insert" \in types THEN "insert"
    ELSE IF "delete" \in types THEN "delete"
    ELSE "equal"

\* The loop over the opcodes and the value returned.
DiffOutcome(ops) ==
    [differences |-> Differences(ops), diff_type |-> DiffType(DiffTypes(ops))]

\* find_char_differences without the shortcut for identical texts and with
\* the replace branch taken for every opcode that is no insert or delete.
RECURSIVE Differences_catch_all(_)
Differences_catch_all(ops) ==
    IF ops = <<>> THEN <<>>
    ELSE (IF Head(ops)[1] # "delete"
          THEN <<(<<Head(ops)[4], Head(ops)[5]>>)>> ELSE <<>>)
         \o Differences_catch_all(Tail(ops))

find_char_differences_no_shortcut(old_text, new_text) ==
    [differences |-> Differences_catch_all(get_opcodes(old_text, new_text)),
     diff_type |-> "replace"]

find_char_differences(old_text, new_text) ==
    IF old_text = new_text
    THEN [differences |-> <<>>, diff_type |-> "equal"]
    ELSE DiffOutcome(get_opcodes(old_text, new_text))

\* ----------------------------------------- apply_blue_color_to_differences
\* A cell value is a plain text or, once annotated, a CellRichText: a
\* sequence of TextBlocks, each with the normal or the highlight font.
Plain(text) == [rich |-> FALSE, text |-> text, parts |-> <<>>]
RichText(parts) == [rich |-> TRUE, text |-> <<>>, parts |-> parts]
TextBlock(font, text) == [font |-> font, text |-> text]

\* rich_text_parts without the block for the text after the last difference.
RECURSIVE rich_text_parts_no_rest(_, _, _)
rich_text_parts_no_rest(new_text, differences, current_pos) ==
    IF differences = <<>> THEN <<>>
    ELSE (IF current_pos < Head(differences)[1]
          THEN <<TextBlock("normal",
                           Slice(new_text, current_pos, Head(differences)[1]))>>
          ELSE <<>>)
         \o (IF Head(differences)[1] < Head(differences)[2]
             THEN <<TextBlock("blue", Slice(new_text, Head(differences)[1],
                                            Head(differences)[2]))>>
             ELSE <<>>)
         \o rich_text_parts_no_rest(new_text, Tail(differences),
                                    Head(differences)[2])

\* rich_text_parts giving the text before a difference the highlight font.
RECURSIVE rich_text_parts_gap_blue(_, _, _)
rich_text_parts_gap_blue(new_text, differences, current_pos) ==
    IF differences = <<>>
    THEN IF current_pos < Len(new_text)
         THEN <<TextBlock("normal", Slice(new_text, current_pos, Len(new_text)))>>
         ELSE <<>>
    ELSE (IF current_pos < Head(differences)[1]
          THEN <<TextBlock("blue",
                           Slice(new_text, current_pos, Head(differences)[1]))>>
          ELSE <<>>)
         \o (IF Head(differences)[1] < Head(differences)[2]
             THEN <<TextBlock("blue", Slice(new_text, Head(differences)[1],
                                            Head(differences)[2]))>>
             ELSE <<>>)
         \o rich_text_parts_gap_blue(new_text, Tail(differences),
                                     Head(differences)[2])

\* The loop over differences, from current_pos on, and the rest of the text.
RECURSIVE rich_text_parts(_, _, _)
rich_text_parts(new_text, differences, current_pos) ==
    IF differences = <<>>
    THEN IF current_pos < Len(new_text)
         THEN <<TextBlock("normal", Slice(new_text, current_pos, Len(new_text)))>>
         ELSE <<>>
    ELSE LET start == Head(differences)[1]
             end == Head(differences)[2]
         IN  (IF current_pos < start
              THEN <<TextBlock("normal", Slice(new_text, current_pos, start))>>
              ELSE <<>>)
             \o (IF start < end
                 THEN <<TextBlock("blue", Slice(new_text, start, end))>>
                 ELSE <<>>)
             \o rich_text_parts(new_text, Tail(differences), end)

\* CellRichText(*rich_text_parts) is set only when there is a part.
SetRichText(value, parts) == IF parts # <<>> THEN RichText(parts) ELSE value

\* Annotate without the early return on an empty list of differences: the
\* parts are built and set whatever the differ returned.
Annotate_always(value, new_text, d) ==
    [value |-> SetRichText(value, rich_text_parts(new_text, d.differences, 0)),
     diff_type |-> d.diff_type,
     differences |-> d.differences]

\* What follows the call of the differ, whose outcome is d: the value the
\* cell holds afterwards, the diff_type returned, and the differences.
Annotate(value, new_text, d) ==
    [value |-> IF d.differences = <<>> THEN value
               ELSE SetRichText(value,
                                rich_text_parts(new_text, d.differences, 0)),
     diff_type |-> d.diff_type,
     differences |-> d.differences]

apply_blue_color_to_differences(value, old_text, new_text) ==
    Annotate(value, new_text, find_char_differences(old_text, new_text))

\* ------------------------------------------------------------------- state
VARIABLES
    \* the differ and the annotation builder called on their own
    dpc,            \* "idle", "input", "differ" or "annotated"
    old_text,       \* the arguments of the call
    new_text,
    diff_out,       \* what the call returned: differences and diff_type
    cell_value,     \* the value of the cell handed to the annotation builder
    \* compare_and_highlight_excel
    pc,             \* "idle", "sheets", "cells" or "done"
    new_sheetnames, \* new_wb.sheetnames
    old_sheetnames, \* old_wb.sheetnames
    sheet_idx,      \* how many sheets of new_wb the outer loop has taken
    max_row,        \* new_sheet.max_row, new_sheet.max_column
    max_column,
    row,            \* the loop variables: the cell of the latest iteration
    col,
    merged,         \* isinstance(new_cell, MergedCell) in that iteration
    old_value,      \* the locals old_value, new_value
    new_value,
    changes_log,
    styled,         \* the cells of new_wb whose value was replaced
    calls,          \* the calls of apply_blue_color_to_differences so far
    saved,          \* new_wb.save(output_file_path) has run
    \* extract_base_filename, extract_version_number
    npc,            \* "idle", "input" or "named"
    filename,       \* the argument
    base_name,      \* what extract_base_filename returned
    \* find_matching_file_pairs
    fpc,            \* "idle", "input" or "matched"
    old_directory,  \* the arguments
    new_directory,
    old_glob,       \* old_dir.glob('*.xlsx'): file names in discovery order
    new_glob,
    match_out,      \* what the call returned
    \* the loop of main over the matched pairs
    mpc,            \* "idle", "loop", "report", "done" or "interrupted"
    file_pairs,
    outcomes,       \* what the comparison of each pair does
    pair_idx,       \* how many pairs the loop has taken
    success_count,
    error_count,
    all_results,
    report          \* the statistics generate_html_report computes

diffVars == <<dpc, old_text, new_text, diff_out, cell_value>>
cmpVars == <<pc, new_sheetnames, old_sheetnames, sheet_idx, max_row,
             max_column, row, col, merged, old_value, new_value,
             changes_log, styled, calls, saved>>
nameVars == <<npc, filename, base_name>>
matchVars == <<fpc, old_directory, new_directory, old_glob, new_glob,
               match_out>>
mainVars == <<mpc, file_pairs, outcomes, pair_idx, success_count,
              error_count, all_results, report>>
fileVars == <<nameVars, matchVars, mainVars>>
vars == <<diffVars, cmpVars, fileVars>>

NoOutcome == [differences |-> <<>>, diff_type |-> "none"]

DiffIdle ==
    /\ dpc = "idle"
    /\ old_text = <<>>
    /\ new_text = <<>>
    /\ diff_out = NoOutcome
    /\ cell_value = Plain(<<>>)

CmpIdle ==
    /\ pc = "idle"
    /\ new_sheetnames = <<>>
    /\ old_sheetnames = <<>>
    /\ sheet_idx = 0
    /\ max_row = 0
    /\ max_column = 0
    /\ row = 0
    /\ col = 0
    /\ merged = FALSE
    /\ old_value = <<>>
    /\ new_value = <<>>
    /\ changes_log = <<>>
    /\ styled = {}
    /\ calls = <<>>
    /\ saved = FALSE

NoMatch == [pairs |-> <<>>, unmatched_old_files |-> <<>>,
            unmatched_new_files |-> <<>>]

NoReport == [total_files |-> 0, total_changes |-> 0, success_files |-> 0,
             error_files |-> 0, sheet_stats |-> <<>>, file_stats |-> <<>>]

NameIdle ==
    /\ npc = "idle"
    /\ filename = <<>>
    /\ base_name = <<>>

MatchIdle ==
    /\ fpc = "idle"
    /\ old_directory = ""
    /\ new_directory = ""
    /\ old_glob = <<>>
    /\ new_glob = <<>>
    /\ match_out = NoMatch

MainIdle ==
    /\ mpc = "idle"
    /\ file_pairs = <<>>
    /\ outcomes = <<>>
    /\ pair_idx = 0
    /\ success_count = 0
    /\ error_count = 0
    /\ all_results = <<>>
    /\ report = NoReport

FilesIdle == NameIdle /\ MatchIdle /\ MainIdle

\* ----------------------------------------------- the differ, on its own
InitDiff ==
    /\ CmpIdle
    /\ FilesIdle
    /\ dpc = "input"
    /\ \/ \E o \in Texts, n \in Texts : old_text = o /\ new_text = n
       \/ \E o \in ExampleTexts, n \in ExampleTexts :
              old_text = o /\ new_text = n
       \/ \E p \in LongPairs : old_text = p[1] /\ new_text = p[2]
    /\ diff_out = NoOutcome
    /\ cell_value = Plain(new_text)

\* find_char_differences(old_text, new_text)
CallFindCharDifferences ==
    /\ dpc = "input"
    /\ diff_out' = find_char_differences(old_text, new_text)
    /\ dpc' = "differ"
    /\ UNCHANGED <<old_text, new_text, cell_value, cmpVars, fileVars>>

\* apply_blue_color_to_differences(cell, old_text, new_text)
CallApplyBlueColor ==
    /\ dpc = "input"
    /\ \E r \in {apply_blue_color_to_differences(cell_value, old_text,
                                                  new_text)} :
          /\ cell_value' = r.value
          /\ diff_out' = [differences |-> r.differences,
                          diff_type |-> r.diff_type]
    /\ dpc' = "annotated"
    /\ UNCHANGED <<old_text, new_text, cmpVars, fileVars>>

NextDiff == CallFindCharDifferences \/ CallApplyBlueColor

SpecDiff == InitDiff /\ [][NextDiff]_vars

\* -------------------------------------------- compare_and_highlight_excel
\* Truncated marking a value of exactly MAX_CELL_VALUE_LENGTH characters.
Truncated_at_limit(value) ==
    IF Len(value) >= MAX_CELL_VALUE_LENGTH
    THEN SubSeq(value, 1, MAX_CELL_VALUE_LENGTH) \o <<".", ".", ".">>
    ELSE value

\* old_value[:MAX_CELL_VALUE_LENGTH] + ('...' if longer else '')
Truncated(value) ==
    IF Len(value) > MAX_CELL_VALUE_LENGTH
    THEN SubSeq(value, 1, MAX_CELL_VALUE_LENGTH) \o <<".", ".", ".">>
    ELSE value

\* new_cell.column_letter, for the columns of the model.
column_letter(c) == <<"A", "B", "C", "D", "E", "F", "G", "H">>[c]

\* f'{new_cell.column_letter}{new_cell.row}'
Address(r, c) == <<column_letter(c), r>>

\* The entry appended to changes_log.
ChangeRecord(sheet, r, c, old, new, type) ==
    [sheet |-> sheet, cell |-> Address(r, c), old |-> Truncated(old),
     new |-> Truncated(new), type |-> type]

\* The sheet the outer loop is in.
sheet_name == new_sheetnames[sheet_idx]

\* Both documents are open: the state at "changes_log = []".
InitCompare ==
    /\ DiffIdle
    /\ FilesIdle
    /\ pc = "sheets"
    /\ new_sheetnames \in NewSheetLists
    /\ old_sheetnames \in OldSheetLists
    /\ sheet_idx = 0
    /\ max_row = 0
    /\ max_column = 0
    /\ row = 0
    /\ col = 0
    /\ merged = FALSE
    /\ old_value = <<>>
    /\ new_value = <<>>
    /\ changes_log = <<>>
    /\ styled = {}
    /\ calls = <<>>
    /\ saved = FALSE

\* SkipSheet ending the comparison at the sheet that old_wb lacks: nothing is
\* saved and no later sheet is taken.
SkipSheet_stopped ==
    /\ pc = "sheets"
    /\ sheet_idx < Len(new_sheetnames)
    /\ new_sheetnames[sheet_idx + 1] \notin Range(old_sheetnames)
    /\ sheet_idx' = sheet_idx + 1
    /\ pc' = "done"
    /\ UNCHANGED <<new_sheetnames, old_sheetnames, max_row, max_column,
                   row, col, merged, old_value, new_value, changes_log,
                   styled, calls, saved, diffVars, fileVars>>

\* The outer loop takes a sheet that old_wb lacks: warning, continue.
SkipSheet ==
    /\ pc = "sheets"
    /\ sheet_idx < Len(new_sheetnames)
    /\ new_sheetnames[sheet_idx + 1] \notin Range(old_sheetnames)
    /\ sheet_idx' = sheet_idx + 1
    /\ UNCHANGED <<pc, new_sheetnames, old_sheetnames, max_row, max_column,
                   row, col, merged, old_value, new_value, changes_log,
                   styled, calls, saved, diffVars, fileVars>>

\* The outer loop takes a sheet of both documents and reads its dimensions;
\* no cell of it has been taken yet.
EnterSheet ==
    /\ pc = "sheets"
    /\ sheet_idx < Len(new_sheetnames)
    /\ new_sheetnames[sheet_idx + 1] \in Range(old_sheetnames)
    /\ sheet_idx' = sheet_idx + 1
    /\ max_row' \in 1..MaxRow
    /\ max_column' \in 1..MaxCol
    /\ row' = 1
    /\ col' = 0
    /\ pc' = "cells"
    /\ UNCHANGED <<new_sheetnames, old_sheetnames, merged, old_value,
                   new_value, changes_log, styled, calls, saved, diffVars, fileVars>>

\* HasNextCell with the row loop running one row past new_sheet.max_row.
HasNextCell_past_last_row == col < max_column \/ row < max_row + 1

\* The two inner loops: the cell after (row, col) in row-major order.
HasNextCell == col < max_column \/ row < max_row
NextRow == IF col < max_column THEN row ELSE row + 1
NextCol == IF col < max_column THEN col + 1 ELSE 1

\* CellMerged without the skip: the merged cell, whose own value is None, is
\* compared with the old cell like any other cell.
CellMerged_compared ==
    /\ pc = "cells"
    /\ HasNextCell
    /\ Len(changes_log) < MaxChanges
    /\ row' = NextRow
    /\ col' = NextCol
    /\ merged' = TRUE
    /\ old_value' = <<"a">>
    /\ new_value' = <<>>
    /\ changes_log' = Append(changes_log,
           ChangeRecord(sheet_name, NextRow, NextCol, <<"a">>, <<>>, "delete"))
    /\ UNCHANGED <<pc, new_sheetnames, old_sheetnames, sheet_idx, max_row,
                   max_column, styled, calls, saved, diffVars, fileVars>>

\* An iteration whose new_cell is a MergedCell: skipped before any value is
\* read.
CellMerged ==
    /\ pc = "cells"
    /\ HasNextCell
    /\ row' = NextRow
    /\ col' = NextCol
    /\ merged' = TRUE
    /\ UNCHANGED <<pc, new_sheetnames, old_sheetnames, sheet_idx, max_row,
                   max_column, old_value, new_value, changes_log, styled,
                   calls, saved, diffVars, fileVars>>

\* CellUnchanged without the test old_value != new_value: a cell that is not
\* empty is recorded whether or not its texts differ.
CellUnchanged_recorded ==
    /\ pc = "cells"
    /\ HasNextCell
    /\ Len(changes_log) < MaxChanges
    /\ row' = NextRow
    /\ col' = NextCol
    /\ merged' = FALSE
    /\ \E p \in CellPairs :
          /\ p[1] = p[2]
          /\ old_value' = p[1]
          /\ new_value' = p[2]
          /\ changes_log' = IF p[1] = <<>> THEN changes_log
                            ELSE Append(changes_log,
                                     ChangeRecord(sheet_name, NextRow, NextCol,
                                                  p[1], p[2], "equal"))
    /\ UNCHANGED <<pc, new_sheetnames, old_sheetnames, sheet_idx, max_row,
                   max_column, styled, calls, saved, diffVars, fileVars>>

\* An iteration on a cell empty in both documents, or with the same text in
\* both: nothing is recorded.
CellUnchanged ==
    /\ pc = "cells"
    /\ HasNextCell
    /\ row' = NextRow
    /\ col' = NextCol
    /\ merged' = FALSE
    /\ \E p \in CellPairs :
          /\ p[1] = p[2]
          /\ old_value' = p[1]
          /\ new_value' = p[2]
    /\ UNCHANGED <<pc, new_sheetnames, old_sheetnames, sheet_idx, max_row,
                   max_column, changes_log, styled, calls, saved, diffVars, fileVars>>

\* CellChanged putting its entry at the head of changes_log.
CellChanged_prepended ==
    /\ pc = "cells"
    /\ HasNextCell
    /\ Len(changes_log) < MaxChanges
    /\ row' = NextRow
    /\ col' = NextCol
    /\ merged' = FALSE
    /\ \E p \in CellPairs :
          /\ p[1] # p[2]
          /\ p[2] # <<>>
          /\ old_value' = p[1]
          /\ new_value' = p[2]
          /\ \E r \in {apply_blue_color_to_differences(Plain(p[2]), p[1],
                                                       p[2])} :
                /\ calls' = Append(calls,
                       [sheet |-> sheet_name, row |-> NextRow,
                        col |-> NextCol, old_text |-> p[1],
                        new_text |-> p[2], differences |-> r.differences,
                        diff_type |-> r.diff_type])
                /\ styled' = IF r.value.rich
                             THEN styled \cup
                                  {[sheet |-> sheet_name, row |-> NextRow,
                                    col |-> NextCol, value |-> r.value]}
                             ELSE styled
                /\ changes_log' = <<ChangeRecord(sheet_name, NextRow, NextCol,
                                                 p[1], p[2], r.diff_type)>>
                                  \o changes_log
    /\ UNCHANGED <<pc, new_sheetnames, old_sheetnames, sheet_idx, max_row,
                   max_column, saved, diffVars, fileVars>>

\* An iteration on a cell whose texts differ, the new one not empty: the
\* annotation builder is called on the cell and its diff_type is recorded.
CellChanged ==
    /\ pc = "cells"
    /\ HasNextCell
    /\ Len(changes_log) < MaxChanges
    /\ row' = NextRow
    /\ col' = NextCol
    /\ merged' = FALSE
    /\ \E p \in CellPairs :
          /\ p[1] # p[2]
          /\ p[2] # <<>>
          /\ old_value' = p[1]
          /\ new_value' = p[2]
          /\ \E r \in {apply_blue_color_to_differences(Plain(p[2]), p[1],
                                                       p[2])} :
                /\ calls' = Append(calls,
                       [sheet |-> sheet_name, row |-> NextRow,
                        col |-> NextCol, old_text |-> p[1],
                        new_text |-> p[2], differences |-> r.differences,
                        diff_type |-> r.diff_type])
                /\ styled' = IF r.value.rich
                             THEN styled \cup
                                  {[sheet |-> sheet_name, row |-> NextRow,
                                    col |-> NextCol, value |-> r.value]}
                             ELSE styled
                /\ changes_log' = Append(changes_log,
                       ChangeRecord(sheet_name, NextRow, NextCol, p[1], p[2],
                                    r.diff_type))
    /\ UNCHANGED <<pc, new_sheetnames, old_sheetnames, sheet_idx, max_row,
                   max_column, saved, diffVars, fileVars>>

\* CellEmptied without the test of new_value: the annotation builder is
\* called on the emptied cell as on any other changed cell.
CellEmptied_annotated ==
    /\ pc = "cells"
    /\ HasNextCell
    /\ Len(changes_log) < MaxChanges
    /\ row' = NextRow
    /\ col' = NextCol
    /\ merged' = FALSE
    /\ \E p \in CellPairs :
          /\ p[1] # p[2]
          /\ p[2] = <<>>
          /\ old_value' = p[1]
          /\ new_value' = p[2]
          /\ \E r \in {apply_blue_color_to_differences(Plain(p[2]), p[1],
                                                       p[2])} :
                /\ calls' = Append(calls,
                       [sheet |-> sheet_name, row |-> NextRow,
                        col |-> NextCol, old_text |-> p[1],
                        new_text |-> p[2], differences |-> r.differences,
                        diff_type |-> r.diff_type])
                /\ changes_log' = Append(changes_log,
                       ChangeRecord(sheet_name, NextRow, NextCol, p[1], p[2],
                                    r.diff_type))
    /\ UNCHANGED <<pc, new_sheetnames, old_sheetnames, sheet_idx, max_row,
                   max_column, styled, saved, diffVars, fileVars>>

\* CellEmptied without the branch for an empty new value: diff_type keeps its
\* initial value 'equal'.
CellEmptied_equal ==
    /\ pc = "cells"
    /\ HasNextCell
    /\ Len(changes_log) < MaxChanges
    /\ row' = NextRow
    /\ col' = NextCol
    /\ merged' = FALSE
    /\ \E p \in CellPairs :
          /\ p[1] # p[2]
          /\ p[2] = <<>>
          /\ old_value' = p[1]
          /\ new_value' = p[2]
          /\ changes_log' = Append(changes_log,
                 ChangeRecord(sheet_name, NextRow, NextCol, p[1], p[2],
                              "equal"))
    /\ UNCHANGED <<pc, new_sheetnames, old_sheetnames, sheet_idx, max_row,
                   max_column, styled, calls, saved, diffVars, fileVars>>

\* An iteration on a cell whose new text is empty and whose old text is not:
\* recorded as 'delete'.
CellEmptied ==
    /\ pc = "cells"
    /\ HasNextCell
    /\ Len(changes_log) < MaxChanges
    /\ row' = NextRow
    /\ col' = NextCol
    /\ merged' = FALSE
    /\ \E p \in CellPairs :
          /\ p[1] # p[2]
          /\ p[2] = <<>>
          /\ old_value' = p[1]
          /\ new_value' = p[2]
          /\ changes_log' = Append(changes_log,
                 ChangeRecord(sheet_name, NextRow, NextCol, p[1], p[2],
                              IF p[1] # <<>> THEN "delete" ELSE "equal"))
    /\ UNCHANGED <<pc, new_sheetnames, old_sheetnames, sheet_idx, max_row,
                   max_column, styled, calls, saved, diffVars, fileVars>>

\* The inner loops are over: back to the outer loop.
LeaveSheet ==
    /\ pc = "cells"
    /\ ~HasNextCell
    /\ pc' = "sheets"
    /\ UNCHANGED <<new_sheetnames, old_sheetnames, sheet_idx, max_row,
                   max_column, row, col, merged, old_value, new_value,
                   changes_log, styled, calls, saved, diffVars, fileVars>>

\* After the outer loop: the summary sheet is put first in new_wb when
\* there are changes, new_wb is saved and changes_log returned.
Finish ==
    /\ pc = "sheets"
    /\ sheet_idx = Len(new_sheetnames)
    /\ new_sheetnames' = IF changes_log # <<>>
                         THEN <<"SUMMARY_SHEET_NAME">> \o new_sheetnames
                         ELSE new_sheetnames
    /\ sheet_idx' = Len(new_sheetnames')
    /\ saved' = TRUE
    /\ pc' = "done"
    /\ UNCHANGED <<old_sheetnames, max_row, max_column, row, col, merged,
                   old_value, new_value, changes_log, styled, calls,
                   diffVars, fileVars>>

Next ==
    \/ SkipSheet
    \/ EnterSheet
    \/ CellMerged
    \/ CellUnchanged
    \/ CellChanged
    \/ CellEmptied
    \/ LeaveSheet
    \/ Finish

Spec == InitCompare /\ [][Next]_vars

\* ======================================================================
\* File names: extract_version_number, extract_base_filename
\* ======================================================================
\* A file name is the sequence of its characters.  The kana of the copy
\* marker are written by their names: "no", "ko", "pi" and "choon" are one
\* character each.
Xlsx == <<".", "x", "l", "s", "x">>
Report == <<"R", "e", "p", "o", "r", "t">>
Kopii == <<"ko", "pi", "choon">>
NoKopii == <<"no">> \o Kopii

\* The names of the documentation of extract_base_filename.
ExampleNames ==
    {Report \o <<"_", "v", "2", ".", "0", "6">> \o Xlsx,
     Report \o <<"_", "v", "2", ".", "0", "9", " ">> \o NoKopii \o Xlsx,
     Report \o <<" ", "(", "1", ")">> \o Xlsx,
     Report \o Xlsx}

\* The pieces other names are put together from, MaxParts of them at most.
MaxParts == 3

NameParts ==
    {Report, <<"_">>, <<" ">>, <<"v", "2", ".", "0", "6">>,
     <<"V", "1", ".", "5">>, <<"v">>, <<"2">>, <<".">>, <<"(", "1", ")">>,
     <<"(">>, NoKopii, <<"c", "o", "p", "y">>, <<"C", "o", "p", "Y">>,
     <<" ", "-", " ">> \o Kopii}

\* The names old_dir.glob('*.xlsx') can give: pieces and the extension.  (A
\* name of dots only before the extension is left out: its stem depends on
\* the version of pathlib.)
PartLists == UNION {[1..n -> NameParts] : n \in 1..MaxParts}
NameInputs ==
    ExampleNames
    \cup {Concat(ps) \o Xlsx : ps \in {qs \in PartLists : Range(Concat(qs)) # {"."}}}

IsSpace(ch) == ch = " "
IsDigit(ch) == ch \in {"0", "1", "2", "3", "4", "5", "6", "7", "8", "9"}

SetMin(S) == CHOOSE x \in S : \A y \in S : x <= y
SetMax(S) == CHOOSE x \in S : \A y \in S : x >= y

\* Path(filename).stem: the name up to its last dot, when that dot is
\* neither the first nor the last character.
stem(name) ==
    IF \E i \in 2..(Len(name) - 1) : name[i] = "."
    THEN SubSeq(name, 1, SetMax({i \in 2..(Len(name) - 1) : name[i] = "."}) - 1)
    ELSE name

\* The position after the digits \d+ takes from position p on (greedy).
DigitsEnd(s, p) ==
    SetMin({q \in p..(Len(s) + 1) : q = Len(s) + 1 \/ ~IsDigit(s[q])})

\* [vV]\d+\.\d+ matches at position p, its first \d+ ending before q.
VersionUpTo(s, p, q) ==
    /\ q > p + 1
    /\ q + 1 <= Len(s)
    /\ s[q] = "."
    /\ IsDigit(s[q + 1])

VersionAt(s, p) ==
    /\ p <= Len(s)
    /\ s[p] \in {"v", "V"}
    /\ VersionUpTo(s, p, DigitsEnd(s, p + 1))

\* [_\s]*[vV]\d+\.\d+ matches at position p.
VersionStripAt(s, p) ==
    \E k \in p..Len(s) :
        /\ \A n \in p..(k - 1) : s[n] = "_" \/ IsSpace(s[n])
        /\ VersionAt(s, k)

\* re.sub(pattern + '.*$', '', s): s up to the leftmost match, or s.
CutAt(s, matches) ==
    IF matches = {} THEN s ELSE SubSeq(s, 1, SetMin(matches) - 1)

\* re.sub(r'[_\s]*[vV]\d+\.\d+.*$', '', name_without_ext)
version_sub(s) == CutAt(s, {p \in 1..Len(s) : VersionStripAt(s, p)})

\* s continues at position k with the characters of lit.
Literal(s, k, lit) ==
    /\ k + Len(lit) - 1 <= Len(s)
    /\ \A n \in 1..Len(lit) : s[k + n - 1] = lit[n]

\* The same under re.IGNORECASE, for the letters of 'copy'.
Upper(ch) == CASE ch = "c" -> "C" [] ch = "o" -> "O" [] ch = "p" -> "P"
               [] ch = "y" -> "Y" [] OTHER -> ch

LiteralIgnoreCase(s, k, lit) ==
    /\ k + Len(lit) - 1 <= Len(s)
    /\ \A n \in 1..Len(lit) : s[k + n - 1] \in {lit[n], Upper(lit[n])}

\* \(\d+\) matches at position k.
NumberInParens(s, k, q) ==
    /\ q > k + 1
    /\ q <= Len(s)
    /\ s[q] = ")"

\* \s-\s*<ko pi choon> matches at position k.
DashKopii(s, k) ==
    /\ k + 1 <= Len(s)
    /\ IsSpace(s[k])
    /\ s[k + 1] = "-"
    /\ \E m \in (k + 2)..Len(s) :
          /\ \A n \in (k + 2)..(m - 1) : IsSpace(s[n])
          /\ Literal(s, m, Kopii)

\* One of the alternatives of the copy marker matches at position k.
MarkerAt(s, k) ==
    \/ Literal(s, k, NoKopii)
    \/ (k <= Len(s) /\ s[k] = "(" /\ NumberInParens(s, k, DigitsEnd(s, k + 1)))
    \/ LiteralIgnoreCase(s, k, <<"c", "o", "p", "y">>)
    \/ DashKopii(s, k)

\* \s*(marker) matches at position p.
CopyStripAt(s, p) ==
    \E k \in p..Len(s) :
        /\ \A n \in p..(k - 1) : IsSpace(s[n])
        /\ MarkerAt(s, k)

\* re.sub(r'\s*(...).*$', '', base_name, flags=re.IGNORECASE)
copy_sub(s) == CutAt(s, {p \in 1..Len(s) : CopyStripAt(s, p)})

\* str.strip()
strip(s) ==
    IF \A n \in 1..Len(s) : IsSpace(s[n]) THEN <<>>
    ELSE SubSeq(s, SetMin({n \in 1..Len(s) : ~IsSpace(s[n])}),
                   SetMax({n \in 1..Len(s) : ~IsSpace(s[n])}))

\* extract_base_filename without its second re.sub.
extract_base_filename_version_only(name) == strip(version_sub(stem(name)))

extract_base_filename(name) == strip(copy_sub(version_sub(stem(name))))

\* The value of a sequence of digits.
DigitValue(ch) ==
    CASE ch = "0" -> 0 [] ch = "1" -> 1 [] ch = "2" -> 2 [] ch = "3" -> 3
      [] ch = "4" -> 4 [] ch = "5" -> 5 [] ch = "6" -> 6 [] ch = "7" -> 7
      [] ch = "8" -> 8 [] ch = "9" -> 9

RECURSIVE Number(_)
Number(digits) ==
    IF digits = <<>> THEN 0
    ELSE 10 * Number(SubSeq(digits, 1, Len(digits) - 1))
         + DigitValue(digits[Len(digits)])

RECURSIVE Power10(_)
Power10(n) == IF n = 0 THEN 1 ELSE 10 * Power10(n - 1)

\* float(match.group(1)) for the match at position p whose integer digits
\* end before q and whose fraction digits end before e: the number
\* <<n, d>> stands for n / d.
FloatOf(s, p, q, e) ==
    <<Number(SubSeq(s, p + 1, q - 1)) * Power10(e - q - 1)
          + Number(SubSeq(s, q + 1, e - 1)),
      Power10(e - q - 1)>>

FloatAt(s, p, q) == FloatOf(s, p, q, DigitsEnd(s, q + 1))

\* extract_version_number: re.search takes the leftmost match; 0.0 without.
VersionFrom(s, matches) ==
    IF matches = {} THEN <<0, 1>>
    ELSE FloatAt(s, SetMin(matches), DigitsEnd(s, SetMin(matches) + 1))

extract_version_number(name) ==
    VersionFrom(name, {p \in 1..Len(name) : VersionAt(name, p)})

\* Comparison of two such numbers.
FloatLess(x, y) == x[1] * y[2] < y[1] * x[2]

\* ----------------------------------- extract_base_filename, on its own
InitName ==
    /\ DiffIdle
    /\ CmpIdle
    /\ MatchIdle
    /\ MainIdle
    /\ npc = "input"
    /\ filename \in NameInputs
    /\ base_name = <<>>

CallExtractBaseFilename ==
    /\ npc = "input"
    /\ base_name' = extract_base_filename(filename)
    /\ npc' = "named"
    /\ UNCHANGED <<filename, diffVars, cmpVars, matchVars, mainVars>>

NextName == CallExtractBaseFilename

SpecName == InitName /\ [][NextName]_vars

\* ======================================================================
\* find_matching_file_pairs
\* ======================================================================
\* TEMP_FILE_PREFIX
TEMP_FILE_PREFIX == <<"~", "$">>

\* A path that is no folder (the folders of the model are "old" and "new").
MissingDirectory == "missing"

\* A folder lists at most MaxFiles files.
MaxFiles == 3

\* The file names of the model: versions 1.0, 2.0 and 2.00 of A in the old
\* folder, version 3.0 of A, A without a version and a copy of it in the new
\* one, a lock file, and the documents B and C.
A_v(digits) == <<"A", "_", "v">> \o digits \o Xlsx
OldNames ==
    {A_v(<<"1", ".", "0">>), A_v(<<"2", ".", "0">>),
     A_v(<<"2", ".", "0", "0">>), <<"B">> \o Xlsx,
     TEMP_FILE_PREFIX \o A_v(<<"9", ".", "0">>)}
NewNames ==
    {A_v(<<"3", ".", "0">>), <<"A", " ", "(", "1", ")">> \o Xlsx,
     <<"A">> \o Xlsx, <<"C">> \o Xlsx,
     TEMP_FILE_PREFIX \o A_v(<<"9", ".", "0">>)}

\* dir.glob('*.xlsx'): distinct names of the folder, in any order.
Listings(names) ==
    {l \in UNION {[1..n -> names] : n \in 0..MaxFiles} :
        \A i \in 1..Len(l), j \in 1..Len(l) : i # j => l[i] # l[j]}

\* file.name.startswith(prefix)
startswith(name, prefix) ==
    Len(name) >= Len(prefix) /\ SubSeq(name, 1, Len(prefix)) = prefix

\* The files the grouping loop keeps.
IsListed(name) == ~startswith(name, TEMP_FILE_PREFIX)

\* The grouping loop without its test of the prefix: lock files are kept.
Listed_with_temp(glob) == glob

Listed(glob) == SelectSeq(glob, IsListed)

\* The keys of the dict old_files (new_files), in insertion order.
AddKey(keys, key) == IF key \in Range(keys) THEN keys ELSE Append(keys, key)

RECURSIVE Keys(_)
Keys(files) ==
    IF files = <<>> THEN <<>>
    ELSE AddKey(Keys(SubSeq(files, 1, Len(files) - 1)),
                extract_base_filename(files[Len(files)]))

\* old_files[base_name]: the files of a group, in discovery order.
Group(files, key) ==
    SelectSeq(files, LAMBDA name : extract_base_filename(name) = key)

\* max(files, key=extract_version_number): the first of the files whose
\* version no other exceeds.
PyMax(files) ==
    files[SetMin({n \in 1..Len(files) :
                     \A m \in 1..Len(files) :
                         ~FloatLess(extract_version_number(files[n]),
                                    extract_version_number(files[m]))})]

\* Selected taking the last of the files whose version no other exceeds.
Selected_last(files) ==
    files[SetMax({n \in 1..Len(files) :
                     \A m \in 1..Len(files) :
                         ~FloatLess(extract_version_number(files[n]),
                                    extract_version_number(files[m]))})]

\* The file selected for a group: the newest when a version is present,
\* else the first.
Selected(files) ==
    IF \E n \in 1..Len(files) : extract_version_number(files[n])[1] > 0
    THEN PyMax(files)
    ELSE files[1]

\* str(file): the folder and the name.
PathOf(dir, name) == <<dir, name>>

\* The pair appended for a base name of both sides.
PairOf_same_path(key, old_file, new_file) ==
    <<(<<key, old_file, new_file>>)>>

PairOf(key, old_file, new_file) ==
    IF old_file # new_file THEN <<(<<key, old_file, new_file>>)>> ELSE <<>>

\* The loop over old_files building pairs.
RECURSIVE Pairs(_, _, _, _, _)
Pairs(keys, old_dir, old_files, new_dir, new_files) ==
    IF keys = <<>> THEN <<>>
    ELSE (IF Head(keys) \in Range(Keys(new_files))
          THEN PairOf(Head(keys),
                      PathOf(old_dir, Selected(Group(old_files, Head(keys)))),
                      PathOf(new_dir, Selected(Group(new_files, Head(keys)))))
          ELSE <<>>)
         \o Pairs(Tail(keys), old_dir, old_files, new_dir, new_files)

\* The code point of a character of the file names.
CodePoint(ch) ==
    CASE ch = " " -> 32 [] ch = "$" -> 36 [] ch = "(" -> 40 [] ch = ")" -> 41
      [] ch = "-" -> 45 [] ch = "." -> 46 [] ch = "0" -> 48 [] ch = "1" -> 49
      [] ch = "2" -> 50 [] ch = "3" -> 51 [] ch = "5" -> 53 [] ch = "6" -> 54
      [] ch = "9" -> 57 [] ch = "A" -> 65 [] ch = "B" -> 66 [] ch = "C" -> 67
      [] ch = "R" -> 82 [] ch = "_" -> 95 [] ch = "e" -> 101
      [] ch = "o" -> 111 [] ch = "p" -> 112 [] ch = "r" -> 114
      [] ch = "t" -> 116 [] ch = "v" -> 118 [] ch = "~" -> 126
      [] ch = "no" -> 12398 [] ch = "ko" -> 12467 [] ch = "pi" -> 12500
      [] ch = "choon" -> 12540

\* s < t for two strings.
StrLess(s, t) ==
    \E n \in 1..(Len(t)) :
        /\ \A k \in 1..(n - 1) : k <= Len(s) /\ s[k] = t[k]
        /\ (n = Len(s) + 1 \/ (n <= Len(s) /\ CodePoint(s[n]) < CodePoint(t[n])))

\* sorted(S) for a set of strings.
RECURSIVE sorted(_)
First(S) == CHOOSE s \in S : \A t \in S : s = t \/ StrLess(s, t)
sorted(S) == IF S = {} THEN <<>> ELSE <<First(S)>> \o sorted(S \ {First(S)})

\* The names of the files of the given groups, group after group.
RECURSIVE NamesOf(_, _)
NamesOf(keys, files) ==
    IF keys = <<>> THEN <<>>
    ELSE Group(files, Head(keys)) \o NamesOf(Tail(keys), files)

MatchedBases(pairs) == {pairs[n][1] : n \in 1..Len(pairs)}

\* The triple find_matching_file_pairs returns for the pairs it has built.
MatchResult(pairs, old_files, new_files) ==
    [pairs |-> pairs,
     unmatched_old_files |->
         NamesOf(sorted(Range(Keys(old_files)) \ MatchedBases(pairs)),
                 old_files),
     unmatched_new_files |->
         NamesOf(sorted(Range(Keys(new_files)) \ MatchedBases(pairs)),
                 new_files)]

\* The function on the files the grouping loops have kept.
MatchListed(old_dir, old_files, new_dir, new_files) ==
    MatchResult(Pairs(Keys(old_files), old_dir, old_files, new_dir, new_files),
                old_files, new_files)

find_matching_file_pairs(old_dir, old_names, new_dir, new_names) ==
    IF old_dir = MissingDirectory \/ new_dir = MissingDirectory
    THEN NoMatch
    ELSE MatchListed(old_dir, Listed(old_names), new_dir, Listed(new_names))

\* ------------------------------- find_matching_file_pairs, on its own
\* Two folders, one folder given twice, or a path that is no folder.
InitMatch ==
    /\ DiffIdle
    /\ CmpIdle
    /\ NameIdle
    /\ MainIdle
    /\ fpc = "input"
    /\ \/ /\ old_directory = "old"
          /\ new_directory = "new"
          /\ old_glob \in Listings(OldNames)
          /\ new_glob \in Listings(NewNames)
       \/ /\ old_directory = "old"
          /\ new_directory = "old"
          /\ old_glob \in Listings(OldNames)
          /\ new_glob = old_glob
       \/ /\ \/ old_directory = MissingDirectory /\ new_directory = "new"
             \/ old_directory = "old" /\ new_directory = MissingDirectory
          /\ old_glob = <<>>
          /\ new_glob = <<>>
    /\ match_out = NoMatch

CallFindMatchingFilePairs ==
    /\ fpc = "input"
    /\ match_out' = find_matching_file_pairs(old_directory, old_glob,
                                              new_directory, new_glob)
    /\ fpc' = "matched"
    /\ UNCHANGED <<old_directory, new_directory, old_glob, new_glob,
                   diffVars, cmpVars, nameVars, mainVars>>

NextMatch == CallFindMatchingFilePairs

SpecMatch == InitMatch /\ [][NextMatch]_vars

\* ======================================================================
\* main: the loop over the matched pairs, generate_html_report
\* ======================================================================
\* OUTPUT_FILE_SUFFIX: an underscore and six characters, written by name.
OUTPUT_FILE_SUFFIX == <<"_", "sa", "bun", "ha", "i", "ra", "i", "to">>

\* The loop takes at most MaxPairs pairs.
MaxPairs == 3

\* The pairs find_matching_file_pairs can hand to the loop.
PairOfNames(key, old_name, new_name) ==
    <<key, PathOf("old", old_name), PathOf("new", new_name)>>

MatchedPairs ==
    {PairOfNames(<<"A">>, A_v(<<"2", ".", "0">>), A_v(<<"3", ".", "0">>)),
     PairOfNames(<<"B">>, <<"B">> \o Xlsx, <<"B">> \o Xlsx),
     PairOfNames(<<"C">>, <<"C">> \o Xlsx, <<"C", " ", "(", "1", ")">> \o Xlsx)}

PairLists ==
    {l \in UNION {[1..n -> MatchedPairs] : n \in 1..MaxPairs} :
        \A i \in 1..Len(l), j \in 1..Len(l) : i # j => l[i][1] # l[j][1]}

\* What compare_and_highlight_excel does on a pair: it returns a change
\* list, raises an Exception, or is interrupted from the keyboard.
Change(sheet, r, c) == ChangeRecord(sheet, r, c, <<"a">>, <<"b">>, "replace")

ChangeLists ==
    {<<>>, <<Change("S1", 1, 1)>>,
     <<Change("S1", 1, 1), Change("S2", 1, 1)>>,
     <<Change("S1", 1, 1), Change("S1", 1, 2)>>}

Outcomes ==
    {[kind |-> "return", changes |-> c] : c \in ChangeLists}
    \cup {[kind |-> "raise", error |-> "cannot open"],
          [kind |-> "interrupt"]}

\* Path(path).name, Path(path).stem and Path(path).suffix of str(file).
NameOfPath(path) == path[2]
suffix(name) == SubSeq(name, Len(stem(name)) + 1, Len(name))
output_filename(new_file) ==
    stem(NameOfPath(new_file)) \o OUTPUT_FILE_SUFFIX
        \o suffix(NameOfPath(new_file))

\* The entry appended to all_results after a comparison that returned.
SuccessResult(pair, changes) ==
    [base_name |-> pair[1], old_file |-> NameOfPath(pair[2]),
     new_file |-> NameOfPath(pair[3]),
     output_file |-> output_filename(pair[3]), changes |-> changes,
     status |-> "success"]

\* The entry appended by the except branch.
ErrorResult(pair, e) ==
    [base_name |-> pair[1], old_file |-> NameOfPath(pair[2]),
     new_file |-> NameOfPath(pair[3]), output_file |-> "N/A",
     changes |-> <<>>, status |-> "error", error |-> e]

\* sum(len(result['changes']) for result in all_results)
RECURSIVE total_changes(_)
total_changes(results) ==
    IF results = <<>> THEN 0
    ELSE Len(Head(results).changes) + total_changes(Tail(results))

success_files(results) ==
    Cardinality({n \in 1..Len(results) : results[n].status = "success"})

\* The changes of all results, one after the other.
AllChanges(results) ==
    Concat([n \in 1..Len(results) |-> results[n].changes])

\* The dict sheet_stats for the changes of all results.
CountBySheet(changes) ==
    [s \in {changes[k].sheet : k \in 1..Len(changes)}
        |-> Cardinality({k \in 1..Len(changes) : changes[k].sheet = s})]

\* sheet_stats counting the changes of the last result only.
sheet_stats_last(results) ==
    CountBySheet(results[Len(results)].changes)

sheet_stats(results) == CountBySheet(AllChanges(results))

file_stats(results) ==
    [n \in 1..Len(results)
        |-> <<results[n].base_name, Len(results[n].changes)>>]

\* The statistics generate_html_report computes before it writes the page.
generate_html_report(results) ==
    [total_files |-> Len(results),
     total_changes |-> total_changes(results),
     success_files |-> success_files(results),
     error_files |-> Len(results) - success_files(results),
     sheet_stats |-> sheet_stats(results),
     file_stats |-> file_stats(results)]

\* The state at "all_results = []": main has matched at least one pair and
\* the user has confirmed.
InitMain ==
    /\ DiffIdle
    /\ CmpIdle
    /\ NameIdle
    /\ MatchIdle
    /\ mpc = "loop"
    /\ file_pairs \in PairLists
    /\ outcomes \in [1..Len(file_pairs) -> Outcomes]
    /\ pair_idx = 0
    /\ success_count = 0
    /\ error_count = 0
    /\ all_results = <<>>
    /\ report = NoReport

\* An iteration whose comparison returns its change list.
PairCompared ==
    /\ mpc = "loop"
    /\ pair_idx < Len(file_pairs)
    /\ outcomes[pair_idx + 1].kind = "return"
    /\ pair_idx' = pair_idx + 1
    /\ success_count' = success_count + 1
    /\ all_results' = Append(all_results,
           SuccessResult(file_pairs[pair_idx + 1],
                         outcomes[pair_idx + 1].changes))
    /\ UNCHANGED <<mpc, file_pairs, outcomes, error_count, report, diffVars,
                   cmpVars, nameVars, matchVars>>

\* PairFailed without the append of the except branch.
PairFailed_dropped ==
    /\ mpc = "loop"
    /\ pair_idx < Len(file_pairs)
    /\ outcomes[pair_idx + 1].kind = "raise"
    /\ pair_idx' = pair_idx + 1
    /\ error_count' = error_count + 1
    /\ UNCHANGED <<mpc, file_pairs, outcomes, success_count, all_results,
                   report, diffVars, cmpVars, nameVars, matchVars>>

\* An iteration whose comparison raises an Exception: the except branch.
PairFailed ==
    /\ mpc = "loop"
    /\ pair_idx < Len(file_pairs)
    /\ outcomes[pair_idx + 1].kind = "raise"
    /\ pair_idx' = pair_idx + 1
    /\ error_count' = error_count + 1
    /\ all_results' = Append(all_results,
           ErrorResult(file_pairs[pair_idx + 1],
                       outcomes[pair_idx + 1].error))
    /\ UNCHANGED <<mpc, file_pairs, outcomes, success_count, report,
                   diffVars, cmpVars, nameVars, matchVars>>

\* A KeyboardInterrupt during a comparison is no Exception: it leaves the
\* loop and main.
Interrupted ==
    /\ mpc = "loop"
    /\ pair_idx < Len(file_pairs)
    /\ outcomes[pair_idx + 1].kind = "interrupt"
    /\ mpc' = "interrupted"
    /\ UNCHANGED <<file_pairs, outcomes, pair_idx, success_count,
                   error_count, all_results, report, diffVars, cmpVars,
                   nameVars, matchVars>>

\* After the loop: generate_html_report(all_results, ...) when all_results
\* is not empty.
GenerateReport ==
    /\ mpc = "loop"
    /\ pair_idx = Len(file_pairs)
    /\ report' = IF all_results # <<>> THEN generate_html_report(all_results)
                 ELSE report
    /\ mpc' = "done"
    /\ UNCHANGED <<file_pairs, outcomes, pair_idx, success_count,
                   error_count, all_results, diffVars, cmpVars, nameVars,
                   matchVars>>

NextMain == PairCompared \/ PairFailed \/ Interrupted \/ GenerateReport

SpecMain == InitMain /\ [][NextMain]_vars

\* ======================================================================
\* Properties of the differ and of the annotation builder (SpecDiff)
\* ======================================================================
\* The tags of the opcodes of the alignment of old_text and new_text.
OpTags == {op[1] : op \in Range(get_opcodes(old_text, new_text))}

\* The new-text ranges of the insert and replace opcodes, selected directly.
IsAddition(op) == op[1] \in {"insert", "replace"}
NewRange(ops) == [n \in 1..Len(ops) |-> <<ops[n][4], ops[n][5]>>]
AdditionRanges ==
    NewRange(SelectSeq(get_opcodes(old_text, new_text), IsAddition))

\* The texts of the blocks of a cell value, one after the other.
BlockTexts(value) == Concat([n \in 1..Len(value.parts) |-> value.parts[n].text])
BlueTexts(value) ==
    LET blue == SelectSeq(value.parts, LAMBDA part : part.font = "blue")
    IN  [n \in 1..Len(blue) |-> blue[n].text]

\* The number of characters of a text of length n outside every span.
RECURSIVE SpanTotal(_)
SpanTotal(spans) ==
    IF spans = <<>> THEN 0
    ELSE Head(spans)[2] - Head(spans)[1] + SpanTotal(Tail(spans))
Unhighlighted(n, spans) == n - SpanTotal(spans)

\* The length of a longest common subsequence, row by row: row[j + 1] is the
\* length for the first j characters of b.  A row, and the table, are built
\* by halves, each half computed (by the test of its length) before the next.
RECURSIVE LcsRow(_, _, _, _, _, _)
LcsCell(ch, b, prev, j, acc) ==
    Append(acc, IF ch = b[j] THEN prev[j] + 1 ELSE Max(prev[j + 1], acc[j]))
LcsRowFrom(ch, b, prev, lo, hi, acc) ==
    IF Len(acc) = lo THEN LcsRow(ch, b, prev, lo, hi, acc) ELSE <<>>
LcsRow(ch, b, prev, lo, hi, acc) ==
    IF lo > hi THEN acc
    ELSE IF lo = hi THEN LcsCell(ch, b, prev, lo, acc)
    ELSE LcsRowFrom(ch, b, prev, ((lo + hi) \div 2) + 1, hi,
                    LcsRow(ch, b, prev, lo, (lo + hi) \div 2, acc))
RECURSIVE LcsRows(_, _, _, _, _)
LcsRowsFrom(a, b, lo, hi, prev) ==
    IF Len(prev) = Len(b) + 1 THEN LcsRows(a, b, lo, hi, prev) ELSE <<>>
LcsRows(a, b, lo, hi, prev) ==
    IF lo > hi THEN prev
    ELSE IF lo = hi THEN LcsRow(a[lo], b, prev, 1, Len(b), <<0>>)
    ELSE LcsRowsFrom(a, b, ((lo + hi) \div 2) + 1, hi,
                     LcsRows(a, b, lo, (lo + hi) \div 2, prev))
Lcs(a, b) ==
    LcsRows(a, b, 1, Len(a), [j \in 1..(Len(b) + 1) |-> 0])[Len(b) + 1]

IsPrefix(s, t) == Len(s) <= Len(t) /\ SubSeq(t, 1, Len(s)) = s

\* The indices (Python's) at which two texts of the same length differ.
DifferAt(s, t) == {i \in 0..(Len(s) - 1) : At(s, i) # At(t, i)}

\* C1: find_char_differences(a, a) returns no span and the kind 'equal',
\* for every text a.
C1_IdenticalTexts ==
    (dpc = "differ" /\ old_text = new_text)
        => diff_out = [differences |-> <<>>, diff_type |-> "equal"]

C1_Witness == dpc = "differ" /\ old_text = new_text /\ Len(new_text) >= 3

\* C2, as claimed: whenever the annotation step has run on old # new with
\* new non-empty, the texts of the styled runs it built, concatenated, are
\* new.  Fails when the differ finds no span: then no run is built.
C2_RoundTripClaimed ==
    (dpc = "annotated" /\ old_text # new_text /\ new_text # <<>>)
        => BlockTexts(cell_value) = new_text

\* C2, amended: when the differ returns at least one span the cell holds
\* styled runs whose texts, concatenated in order, are new; when it returns
\* none (new is old with characters deleted) no run is built and the cell
\* keeps its plain value new.
C2_RoundTrip ==
    (dpc = "annotated" /\ old_text # new_text /\ new_text # <<>>)
        => IF diff_out.differences # <<>>
           THEN cell_value.rich /\ BlockTexts(cell_value) = new_text
           ELSE cell_value = Plain(new_text)

C2_Witness ==
    /\ dpc = "annotated"
    /\ cell_value.rich
    /\ Len(cell_value.parts) >= 3
    /\ BlockTexts(cell_value) = new_text

\* C3: the kind is 'replace' if the alignment has a replace opcode, else
\* 'insert' if it has an insert opcode, else 'delete' if it has a delete
\* opcode, else 'equal'.
C3_KindPrecedence ==
    dpc = "differ" =>
        /\ "replace" \in OpTags => diff_out.diff_type = "replace"
        /\ ("replace" \notin OpTags /\ "insert" \in OpTags)
               => diff_out.diff_type = "insert"
        /\ (OpTags \cap {"replace", "insert"} = {} /\ "delete" \in OpTags)
               => diff_out.diff_type = "delete"
        /\ OpTags \cap {"replace", "insert", "delete"} = {}
               => diff_out.diff_type = "equal"

C3_Witness ==
    /\ dpc = "differ"
    /\ {"replace", "insert"} \subseteq OpTags
    /\ diff_out.diff_type = "replace"

\* C4: the spans are the new-text ranges of the insert and replace opcodes,
\* in order; each is non-empty and inside new, and each ends no later than
\* the next one starts.
C4_Spans ==
    dpc = "differ" =>
        /\ diff_out.differences = AdditionRanges
        /\ \A n \in 1..Len(diff_out.differences) :
               /\ 0 <= diff_out.differences[n][1]
               /\ diff_out.differences[n][1] < diff_out.differences[n][2]
               /\ diff_out.differences[n][2] <= Len(new_text)
        /\ \A n \in 1..(Len(diff_out.differences) - 1) :
               diff_out.differences[n][2] <= diff_out.differences[n + 1][1]

C4_Witness ==
    /\ dpc = "differ"
    /\ Len(diff_out.differences) >= 2
    /\ diff_out.differences[1][2] < diff_out.differences[2][1]

\* C5, as claimed: for old # new the characters of new outside every span
\* are as many as a longest common subsequence of old and new has.
C5_MinimalClaimed ==
    (dpc = "differ" /\ old_text # new_text)
        => Unhighlighted(Len(new_text), diff_out.differences)
               = Lcs(old_text, new_text)

\* C5, amended: for old # new the characters of new outside every span are
\* at most as many as a longest common subsequence of old and new has (the
\* alignment keeps the longest common block first and need not be minimal).
C5_AtMostLcs ==
    (dpc = "differ" /\ old_text # new_text)
        => Unhighlighted(Len(new_text), diff_out.differences)
               <= Lcs(old_text, new_text)

C5_Witness ==
    /\ dpc = "differ"
    /\ old_text # new_text
    /\ Unhighlighted(Len(new_text), diff_out.differences)
           < Lcs(old_text, new_text)

\* C6, as claimed: two texts of the same length differing at exactly one
\* index i give the one span [i, i + 1) and the kind 'replace'.
C6_OneIndexClaimed ==
    (dpc = "differ" /\ Len(old_text) = Len(new_text)
       /\ Cardinality(DifferAt(old_text, new_text)) = 1)
        => \E i \in DifferAt(old_text, new_text) :
               diff_out = [differences |-> <<(<<i, i + 1>>)>>,
                           diff_type |-> "replace"]

\* C6, amended: ... provided the character of old at i does not occur in
\* new, the character of new at i does not occur in old, and new has fewer
\* than 200 characters.
C6_OneIndex ==
    (dpc = "differ" /\ Len(old_text) = Len(new_text)
       /\ Cardinality(DifferAt(old_text, new_text)) = 1
       /\ Len(new_text) < 200)
        => \E i \in DifferAt(old_text, new_text) :
               (At(old_text, i) \notin Range(new_text)
                  /\ At(new_text, i) \notin Range(old_text))
               => diff_out = [differences |-> <<(<<i, i + 1>>)>>,
                              diff_type |-> "replace"]

C6_Witness ==
    /\ dpc = "differ"
    /\ old_text = cat
    /\ new_text = bat
    /\ diff_out = [differences |-> <<(<<0, 1>>)>>, diff_type |-> "replace"]

\* C7: when new is a non-empty old followed by more characters, the one span
\* is [len(old), len(new)) and the kind is 'insert'.
C7_Appended ==
    (dpc = "differ" /\ old_text # <<>> /\ IsPrefix(old_text, new_text)
       /\ Len(old_text) < Len(new_text))
        => diff_out = [differences |-> <<(<<Len(old_text), Len(new_text)>>)>>,
                       diff_type |-> "insert"]

C7_Witness ==
    /\ dpc = "differ"
    /\ old_text = cat
    /\ new_text = cats
    /\ diff_out = [differences |-> <<(<<3, 4>>)>>, diff_type |-> "insert"]

\* C8: when new is a non-empty proper prefix of old, there is no span and
\* the kind is 'delete'.
C8_Truncated ==
    (dpc = "differ" /\ new_text # <<>> /\ IsPrefix(new_text, old_text)
       /\ Len(new_text) < Len(old_text))
        => diff_out = [differences |-> <<>>, diff_type |-> "delete"]

C8_Witness ==
    /\ dpc = "differ"
    /\ old_text = cats
    /\ new_text = cat
    /\ diff_out = [differences |-> <<>>, diff_type |-> "delete"]

\* The highlighted runs of a styled value, in order.
IsBlue(block) == block.font = "blue"
BlueBlocks(value) == SelectSeq(value.parts, IsBlue)

\* The index in the whole text of the first character of run k.
RECURSIVE OffsetOf(_, _)
OffsetOf(parts, k) ==
    IF k = 1 THEN 0 ELSE OffsetOf(parts, k - 1) + Len(parts[k - 1].text)

\* The indices of the text that lie in a highlighted run, and in a span.
HighlightedAt(parts) ==
    {i \in 0..(Len(new_text) - 1) :
        \E k \in 1..Len(parts) :
            /\ IsBlue(parts[k])
            /\ OffsetOf(parts, k) <= i
            /\ i < OffsetOf(parts, k) + Len(parts[k].text)}
InSpan(differences) ==
    {i \in 0..(Len(new_text) - 1) :
        \E n \in 1..Len(differences) :
            differences[n][1] <= i /\ i < differences[n][2]}

\* C22: when the differ returns at least one span, the annotation step
\* builds no run with an empty text; its highlighted runs are, in order,
\* the texts new[start:end] of the spans; and a character of new lies in a
\* highlighted run exactly when it lies in a span.
C22_HighlightedRuns ==
    (dpc = "annotated" /\ diff_out.differences # <<>>)
        => /\ cell_value.rich
           /\ \A k \in 1..Len(cell_value.parts) :
                  cell_value.parts[k].text # <<>>
           /\ Len(BlueBlocks(cell_value)) = Len(diff_out.differences)
           /\ \A n \in 1..Len(diff_out.differences) :
                  BlueBlocks(cell_value)[n].text
                      = Slice(new_text, diff_out.differences[n][1],
                              diff_out.differences[n][2])
           /\ HighlightedAt(cell_value.parts) = InSpan(diff_out.differences)

C22_Witness ==
    /\ dpc = "annotated"
    /\ Len(diff_out.differences) = 2
    /\ Len(cell_value.parts) = 3
    /\ IsBlue(cell_value.parts[1])
    /\ ~IsBlue(cell_value.parts[2])
    /\ IsBlue(cell_value.parts[3])
    /\ HighlightedAt(cell_value.parts) = {0, 2}

\* ======================================================================
\* Properties of compare_and_highlight_excel (Spec)
\* ======================================================================
\* The entries of changes_log for a cell, and the calls of the annotation
\* builder on it.
RecordsOf(sheet, r, c) ==
    {n \in 1..Len(changes_log) :
        changes_log[n].sheet = sheet /\ changes_log[n].cell = Address(r, c)}
CallsOn(sheet, r, c) ==
    {n \in 1..Len(calls) :
        calls[n].sheet = sheet /\ calls[n].row = r /\ calls[n].col = c}

\* The latest iteration of the cell loop read the texts of its cell.
CellCompared == pc = "cells" /\ col >= 1 /\ ~merged

\* C9, as claimed: whenever the annotation step is called for a cell and the
\* differ returns no span, the kind is 'delete' and the new value of the
\* cell is empty.
C9_NoSpanClaimed ==
    \A n \in 1..Len(calls) :
        calls[n].differences = <<>>
            => calls[n].diff_type = "delete" /\ calls[n].new_text = <<>>

\* C9, amended: whenever the annotation step is called for a cell and the
\* differ returns no span, the kind is 'delete' and the new value of the
\* cell is not empty (the step is never called on an empty new value).
C9_NoSpan ==
    \A n \in 1..Len(calls) :
        calls[n].differences = <<>>
            => /\ calls[n].diff_type = "delete"
               /\ calls[n].new_text # <<>>
               /\ \A m \in RecordsOf(calls[n].sheet, calls[n].row, calls[n].col) :
                      changes_log[m].type = "delete"

C9_Witness ==
    \E n \in 1..Len(calls) :
        /\ calls[n].differences = <<>>
        /\ calls[n].old_text = <<"a", "b">>
        /\ calls[n].new_text = <<"a">>
        /\ RecordsOf(calls[n].sheet, calls[n].row, calls[n].col) # {}

\* C10: a compared cell whose old text is not empty and whose new text is
\* empty has exactly one entry in changes_log, of kind 'delete', and the
\* annotation step is not called for it.
C10_Emptied ==
    (CellCompared /\ old_value # <<>> /\ new_value = <<>>)
        => /\ Cardinality(RecordsOf(sheet_name, row, col)) = 1
           /\ changes_log[Len(changes_log)]
                  = [sheet |-> sheet_name, cell |-> Address(row, col),
                     old |-> old_value, new |-> <<>>, type |-> "delete"]
           /\ CallsOn(sheet_name, row, col) = {}

C10_Witness ==
    /\ CellCompared
    /\ old_value = <<"a">>
    /\ new_value = <<>>
    /\ Len(changes_log) = 2
    /\ changes_log[2].type = "delete"
    /\ Len(calls) = 1

\* C11: a compared (non-merged) cell has an entry in changes_log if and only
\* if its old text differs from its new text, and then exactly one; a cell
\* empty on both sides or with equal texts has none.
C11_RecordIffChanged ==
    CellCompared
        => Cardinality(RecordsOf(sheet_name, row, col))
               = (IF old_value # new_value THEN 1 ELSE 0)

C11_Witness ==
    /\ CellCompared
    /\ old_value = <<"a">>
    /\ new_value = <<"a">>
    /\ RecordsOf(sheet_name, row, col) = {}
    /\ Len(changes_log) = 1

\* The stored form of a cell value the summary is documented to hold: the
\* value itself up to 100 characters, else its first 100 and the marker.
StoredForm(value) ==
    IF Len(value) <= 100 THEN value
    ELSE [k \in 1..103 |-> IF k <= 100 THEN value[k] ELSE "."]

\* C12: the entry of a changed cell stores its old value and its new value
\* each cut on its own: over 100 characters, the first 100 and the marker
\* '...'; up to 100 characters (100 included), the value as it is.
C12_Truncation ==
    (CellCompared /\ old_value # new_value)
        => /\ changes_log[Len(changes_log)].old = StoredForm(old_value)
           /\ changes_log[Len(changes_log)].new = StoredForm(new_value)

C12_Witness ==
    /\ CellCompared
    /\ Len(new_value) = LongValueLen
    /\ old_value = <<>>
    /\ Len(changes_log[Len(changes_log)].new) = 103
    /\ changes_log[Len(changes_log)].old = old_value

\* C20: a position whose new cell is a merged cell is taken by a step that
\* leaves changes_log, the calls of the annotation step and the cells of the
\* new document as they were, and no entry, call or styled cell bears its
\* address.
MergedCellUntouched ==
    (pc = "cells" /\ col >= 1 /\ merged)
        => /\ RecordsOf(sheet_name, row, col) = {}
           /\ CallsOn(sheet_name, row, col) = {}
           /\ \A v \in styled :
                  <<v.sheet, v.row, v.col>> # <<sheet_name, row, col>>

MergedStep ==
    (merged' /\ <<sheet_idx', row', col'>> # <<sheet_idx, row, col>>)
        => UNCHANGED <<changes_log, calls, styled, old_value, new_value>>

C20_MergedExcluded == []MergedCellUntouched /\ [][MergedStep]_vars

C20_Witness ==
    /\ pc = "cells"
    /\ merged
    /\ row = 1
    /\ col = 2
    /\ Len(changes_log) = 1
    /\ changes_log[1].cell = Address(1, 1)

\* The sheets of the new document that the old document lacks.
MissingInOld == Range(new_sheetnames) \ Range(old_sheetnames)

\* The outer loop is about to take a sheet, which the old document lacks.
AtMissingSheet ==
    /\ pc = "sheets"
    /\ sheet_idx < Len(new_sheetnames)
    /\ new_sheetnames[sheet_idx + 1] \notin Range(old_sheetnames)

\* The outer loop is about to take a sheet, which the old document has.
AtSharedSheet ==
    /\ pc = "sheets"
    /\ sheet_idx < Len(new_sheetnames)
    /\ new_sheetnames[sheet_idx + 1] \in Range(old_sheetnames)

\* No entry, call or styled cell bears the name of a sheet missing in old.
MissingSheetUntouched ==
    /\ \A n \in 1..Len(changes_log) : changes_log[n].sheet \notin MissingInOld
    /\ \A n \in 1..Len(calls) : calls[n].sheet \notin MissingInOld
    /\ \A v \in styled : v.sheet \notin MissingInOld
    /\ pc = "done" => saved

\* The step at a sheet missing in old goes on to the next sheet and changes
\* nothing else; the step at a sheet of both documents enters its cells; the
\* step after the last sheet saves the document and returns.
SheetStep ==
    /\ AtMissingSheet
           => /\ pc' = "sheets"
              /\ sheet_idx' = sheet_idx + 1
              /\ UNCHANGED <<changes_log, calls, styled, saved,
                             new_sheetnames>>
    /\ AtSharedSheet => pc' = "cells" /\ sheet_idx' = sheet_idx + 1
    /\ (pc = "sheets" /\ sheet_idx = Len(new_sheetnames))
           => pc' = "done" /\ saved' /\ changes_log' = changes_log

\* C21: a sheet of the new document with no sheet of its name in the old one
\* is passed over without ending the comparison: no entry of changes_log, no
\* call of the annotation step and no styled cell bears its name, the sheets
\* after it are still entered, and the comparison ends with the document
\* saved and changes_log returned.
C21_MissingSheetSkipped == []MissingSheetUntouched /\ [][SheetStep]_vars

C21_Witness ==
    /\ pc = "done"
    /\ saved
    /\ "S2" \in MissingInOld
    /\ Len(changes_log) = MaxChanges
    /\ \A n \in 1..Len(changes_log) : changes_log[n].sheet = "S1"
    /\ styled # {}

\* Where an entry of changes_log lies: the place of its sheet in the sheet
\* list of the new document, its row and its column.
SheetPlace(name) ==
    CHOOSE n \in 1..Len(new_sheetnames) : new_sheetnames[n] = name
ColumnOf(letter) == CHOOSE c \in 1..8 : column_letter(c) = letter
RowOf(entry) == entry.cell[2]
ColOf(entry) == ColumnOf(entry.cell[1])

\* Entry a lies before entry b: in an earlier sheet, or in the same sheet in
\* an earlier row, or in the same row in an earlier column.
LiesBefore(a, b) ==
    \/ SheetPlace(a.sheet) < SheetPlace(b.sheet)
    \/ /\ a.sheet = b.sheet
       /\ \/ RowOf(a) < RowOf(b)
          \/ RowOf(a) = RowOf(b) /\ ColOf(a) < ColOf(b)

LogOrdered ==
    \A m \in 1..Len(changes_log) : \A n \in (m + 1)..Len(changes_log) :
        /\ LiesBefore(changes_log[m], changes_log[n])
        /\ <<changes_log[m].sheet, changes_log[m].cell>>
               # <<changes_log[n].sheet, changes_log[n].cell>>

\* A step keeps every entry as it is and where it is, adding at most one
\* entry at the end.
LogStep ==
    /\ Len(changes_log') \in {Len(changes_log), Len(changes_log) + 1}
    /\ SubSeq(changes_log', 1, Len(changes_log)) = changes_log

StyledHere ==
    \E v \in styled : <<v.sheet, v.row, v.col>> = <<sheet_name, row, col>>

\* C24: a cell of the new document has its value replaced by styled runs
\* only when its old text differs from its new text, its new text is not
\* empty and the differ returned at least one span; a cell that is merged,
\* or has equal texts (both empty included), or an empty new text, or for
\* which the differ returned no span, or that lies in a sheet missing in the
\* old document, keeps its value.
C24_StyledOnlyWithSpans ==
    /\ \A v \in styled :
           /\ v.value.rich
           /\ v.sheet \in Range(old_sheetnames)
           /\ CallsOn(v.sheet, v.row, v.col) # {}
           /\ \A n \in CallsOn(v.sheet, v.row, v.col) :
                  /\ calls[n].old_text # calls[n].new_text
                  /\ calls[n].new_text # <<>>
                  /\ calls[n].differences # <<>>
    /\ (pc = "cells" /\ col >= 1)
           => ((\/ merged
                \/ old_value = new_value
                \/ new_value = <<>>
                \/ \E n \in CallsOn(sheet_name, row, col) :
                       calls[n].differences = <<>>)
               => ~StyledHere)

C24_Witness ==
    /\ CellCompared
    /\ row = 1
    /\ col = 2
    /\ old_value = <<"a", "b">>
    /\ new_value = <<"a">>
    /\ \E n \in CallsOn(sheet_name, row, col) : calls[n].differences = <<>>
    /\ ~StyledHere
    /\ \E v \in styled : <<v.sheet, v.row, v.col>> = <<sheet_name, 1, 1>>

\* The diff types of a change.
ChangeKinds == {"insert", "delete", "replace"}

\* C25: every entry of changes_log has the type 'insert', 'delete' or
\* 'replace', never 'equal': every call of the annotation step (on texts
\* that differ, the new one not empty) returns one of the three, and the
\* entry of a cell whose new text is empty has the type 'delete'.
C25_KindNeverEqual ==
    /\ \A n \in 1..Len(changes_log) : changes_log[n].type \in ChangeKinds
    /\ \A n \in 1..Len(calls) :
           /\ calls[n].old_text # calls[n].new_text
           /\ calls[n].new_text # <<>>
           /\ calls[n].diff_type \in ChangeKinds
    /\ \A n \in 1..Len(changes_log) :
           changes_log[n].new = <<>> => changes_log[n].type = "delete"

C25_Witness ==
    /\ pc = "done"
    /\ Len(changes_log) = 2
    /\ changes_log[1].type = "insert"
    /\ changes_log[1].old = <<>>
    /\ changes_log[2].type = "delete"
    /\ changes_log[2].new = <<>>
    /\ Len(changes_log[2].old) = MAX_CELL_VALUE_LENGTH

\* The sheet whose dimensions max_row and max_column hold: the latest sheet
\* of both documents that the outer loop has taken.
TakenShared ==
    {n \in 1..sheet_idx : new_sheetnames[n] \in Range(old_sheetnames)}
DimensionsKnown == pc # "idle" /\ TakenShared # {}
MeasuredSheet == new_sheetnames[SetMax(TakenShared)]

\* C26: the cell loop takes only positions of rows 1..max_row and columns
\* 1..max_column of the new sheet, whatever the old sheet holds outside
\* them: every entry of changes_log, every call of the annotation step and
\* every styled cell of that sheet lies inside those dimensions.
C26_InsideNewDimensions ==
    /\ (pc = "cells" /\ col >= 1)
           => row \in 1..max_row /\ col \in 1..max_column
    /\ DimensionsKnown
           => /\ \A n \in 1..Len(changes_log) :
                     changes_log[n].sheet = MeasuredSheet
                         => /\ RowOf(changes_log[n]) \in 1..max_row
                            /\ ColOf(changes_log[n]) \in 1..max_column
              /\ \A n \in 1..Len(calls) :
                     calls[n].sheet = MeasuredSheet
                         => /\ calls[n].row \in 1..max_row
                            /\ calls[n].col \in 1..max_column
              /\ \A v \in styled :
                     v.sheet = MeasuredSheet
                         => v.row \in 1..max_row /\ v.col \in 1..max_column

C26_Witness ==
    /\ pc = "done"
    /\ max_row = 1
    /\ max_column = 1
    /\ max_column < MaxCol
    /\ MeasuredSheet = "S1"
    /\ {n \in 1..Len(changes_log) : changes_log[n].sheet = "S1"} = {1}
    /\ changes_log[1].cell = Address(1, 1)
    /\ changes_log[1].new = <<>>

\* ======================================================================
\* Properties of extract_base_filename (SpecName)
\* ======================================================================
\* A version token (v or V, digits, a dot, digits) occurs somewhere in s.
HasVersionToken(s) ==
    \E p \in 1..Len(s), q \in 1..Len(s) :
        /\ p + 1 < q
        /\ q < Len(s)
        /\ s[p] \in {"v", "V"}
        /\ \A n \in (p + 1)..(q - 1) : IsDigit(s[n])
        /\ s[q] = "."
        /\ IsDigit(s[q + 1])

\* A copy marker occurs somewhere in s: the kana marker, a number in
\* parentheses, 'copy' in any case, or ' - ' and the kana for copy.
HasCopyMarker(s) ==
    \E p \in 1..Len(s) :
        \/ (p + 3 <= Len(s) /\ SubSeq(s, p, p + 3) = NoKopii)
        \/ \E q \in (p + 2)..Len(s) :
              /\ s[p] = "("
              /\ s[q] = ")"
              /\ \A n \in (p + 1)..(q - 1) : IsDigit(s[n])
        \/ /\ p + 3 <= Len(s)
           /\ s[p] \in {"c", "C"}
           /\ s[p + 1] \in {"o", "O"}
           /\ s[p + 2] \in {"p", "P"}
           /\ s[p + 3] \in {"y", "Y"}
        \/ \E q \in (p + 2)..(Len(s) - 2) :
              /\ s[p] = " "
              /\ s[p + 1] = "-"
              /\ \A n \in (p + 2)..(q - 1) : s[n] = " "
              /\ SubSeq(s, q, q + 2) = Kopii

\* The name without its extension and without spaces at its ends.
TrimmedStem(name) ==
    LET s == SubSeq(name, 1, Len(name) - Len(Xlsx))
        inner == {n \in 1..Len(s) : s[n] # " "}
    IN  IF inner = {} THEN <<>>
        ELSE [k \in 1..(SetMax(inner) - SetMin(inner) + 1)
                 |-> s[SetMin(inner) + k - 1]]

\* C17: extract_base_filename gives "Report" for each of the four example
\* names; what it returns holds neither a version token nor a copy marker,
\* whether or not the name held a version token; and a name with no version
\* token and no copy marker gives its name without extension, trimmed.
C17_BaseName ==
    npc = "named"
        => /\ filename \in ExampleNames => base_name = Report
           /\ ~HasVersionToken(base_name)
           /\ ~HasCopyMarker(base_name)
           /\ (~HasVersionToken(filename) /\ ~HasCopyMarker(filename))
                  => base_name = TrimmedStem(filename)

C17_Witness ==
    /\ npc = "named"
    /\ filename = Report \o <<" ", "(", "1", ")">> \o Xlsx
    /\ base_name = Report

\* ======================================================================
\* Properties of find_matching_file_pairs (SpecMatch)
\* ======================================================================
\* The base name and the version number of the file names of the model,
\* computed once for each name.
KnownNames == OldNames \cup NewNames
BaseTable == [name \in KnownNames |-> extract_base_filename(name)]
VersionTable == [name \in KnownNames |-> extract_version_number(name)]
BaseOfName(name) == BaseTable[name]
VersionOfName(name) == VersionTable[name]

\* The name begins with the two characters of a lock file.
IsTempName(name) == Len(name) >= 2 /\ name[1] = "~" /\ name[2] = "$"

\* The positions of a listing holding the files of a base name.
Members(glob, key) ==
    {n \in 1..Len(glob) :
        ~IsTempName(glob[n]) /\ BaseOfName(glob[n]) = key}

\* The base names of the files of a listing.
Bases(glob) ==
    {BaseOfName(glob[n]) :
        n \in {m \in 1..Len(glob) : ~IsTempName(glob[m])}}

\* The first-discovered of the files of a base name whose version number
\* is maximal.
Newest(glob, key) ==
    glob[CHOOSE n \in Members(glob, key) :
             \A m \in Members(glob, key) :
                 \/ FloatLess(VersionOfName(glob[m]),
                              VersionOfName(glob[n]))
                 \/ (VersionOfName(glob[m])[1]
                         * VersionOfName(glob[n])[2]
                       = VersionOfName(glob[n])[1]
                         * VersionOfName(glob[m])[2]
                     /\ n <= m)]

ExampleOld == <<A_v(<<"1", ".", "0">>), A_v(<<"2", ".", "0">>)>>
ExampleNew == <<A_v(<<"3", ".", "0">>)>>

\* C13: each pair returned holds, for its base name and on each side on its
\* own, the file of maximal version number, the first discovered among
\* equals (so the first of a group whose versions are all 0); a base name of
\* both sides whose two files differ has a pair; old {A_v1.0, A_v2.0} and
\* new {A_v3.0} give the pair (A_v2.0, A_v3.0).
C13_MaxVersion ==
    fpc = "matched"
        => /\ \A n \in 1..Len(match_out.pairs) :
                 /\ match_out.pairs[n][2]
                        = <<old_directory,
                            Newest(old_glob, match_out.pairs[n][1])>>
                 /\ match_out.pairs[n][3]
                        = <<new_directory,
                            Newest(new_glob, match_out.pairs[n][1])>>
           /\ \A key \in Bases(old_glob) \cap Bases(new_glob) :
                 (<<old_directory, Newest(old_glob, key)>>
                      # <<new_directory, Newest(new_glob, key)>>
                  /\ old_directory # MissingDirectory
                  /\ new_directory # MissingDirectory)
                     => \E n \in 1..Len(match_out.pairs) :
                            match_out.pairs[n][1] = key
           /\ (old_glob = ExampleOld /\ new_glob = ExampleNew)
                  => match_out.pairs
                         = <<(<<(<<"A">>), <<"old", ExampleOld[2]>>,
                                <<"new", ExampleNew[1]>>>>)>>

C13_Witness ==
    /\ fpc = "matched"
    /\ old_glob = <<A_v(<<"1", ".", "0">>), A_v(<<"2", ".", "0">>),
                    A_v(<<"2", ".", "0", "0">>)>>
    /\ new_glob = <<(<<"A">> \o Xlsx), (<<"A", " ", "(", "1", ")">> \o Xlsx)>>
    /\ match_out.pairs
           = <<(<<(<<"A">>), <<"old", A_v(<<"2", ".", "0">>)>>,
                  <<"new", <<"A">> \o Xlsx>>>>)>>

\* C14: the two paths of every pair returned differ, and a base name whose
\* two selected files are one and the same path has no pair.
C14_DistinctPaths ==
    fpc = "matched"
        => /\ \A n \in 1..Len(match_out.pairs) :
                 match_out.pairs[n][2] # match_out.pairs[n][3]
           /\ \A key \in Bases(old_glob) \cap Bases(new_glob) :
                 (<<old_directory, Newest(old_glob, key)>>
                      = <<new_directory, Newest(new_glob, key)>>)
                     => \A n \in 1..Len(match_out.pairs) :
                            match_out.pairs[n][1] # key

C14_Witness ==
    /\ fpc = "matched"
    /\ old_directory = new_directory
    /\ old_glob = ExampleOld
    /\ new_glob = ExampleOld
    /\ match_out.pairs = <<>>

\* The position of a name in a listing.
IndexIn(glob, name) == CHOOSE n \in 1..Len(glob) : glob[n] = name

\* list holds, once each, the names of the files of own whose base name no
\* file of other has, by base name and then by discovery order.
IsUnmatchedList(list, own, other) ==
    /\ Range(list)
           = {own[n] : n \in {m \in 1..Len(own) :
                  /\ ~IsTempName(own[m])
                  /\ BaseOfName(own[m]) \notin Bases(other)}}
    /\ \A i \in 1..Len(list), j \in 1..Len(list) :
           i < j =>
               \/ StrLess(BaseOfName(list[i]),
                          BaseOfName(list[j]))
               \/ /\ BaseOfName(list[i])
                         = BaseOfName(list[j])
                  /\ IndexIn(own, list[i]) < IndexIn(own, list[j])

\* C15: the unmatched-old list is exactly the names of the old-side files
\* whose base name is on the old side only, and the same for the new side;
\* no file whose base name is on both sides is in either list; the entries
\* are ordered by base name, then by discovery order.
C15_Unmatched ==
    (fpc = "matched" /\ old_directory # MissingDirectory
                     /\ new_directory # MissingDirectory)
        => /\ IsUnmatchedList(match_out.unmatched_old_files, old_glob,
                              new_glob)
           /\ IsUnmatchedList(match_out.unmatched_new_files, new_glob,
                              old_glob)

\* The case C15 is about has happened: old-only files of two base names,
\* discovered in the other order than their base names sort.
C15_Witness ==
    /\ fpc = "matched"
    /\ old_directory # new_directory
    /\ old_glob = <<(<<"B">> \o Xlsx), A_v(<<"1", ".", "0">>)>>
    /\ new_glob = <<(<<"C">> \o Xlsx)>>
    /\ match_out.unmatched_old_files
           = <<A_v(<<"1", ".", "0">>), (<<"B">> \o Xlsx)>>

\* A listing without its lock files.
WithoutTemp(glob) == SelectSeq(glob, LAMBDA name : ~IsTempName(name))

\* C16: no file whose name starts with '~$' is a path of a pair or an entry
\* of an unmatched list, and the result is the one the same folders give
\* without those files.
C16_TempExcluded ==
    fpc = "matched"
        => /\ \A n \in 1..Len(match_out.pairs) :
                 /\ ~IsTempName(match_out.pairs[n][2][2])
                 /\ ~IsTempName(match_out.pairs[n][3][2])
           /\ \A name \in Range(match_out.unmatched_old_files)
                          \cup Range(match_out.unmatched_new_files) :
                 ~IsTempName(name)
           /\ match_out = find_matching_file_pairs(
                              old_directory, WithoutTemp(old_glob),
                              new_directory, WithoutTemp(new_glob))

C16_Witness ==
    /\ fpc = "matched"
    /\ old_glob = <<(TEMP_FILE_PREFIX \o A_v(<<"9", ".", "0">>)),
                    A_v(<<"1", ".", "0">>)>>
    /\ new_glob = <<(TEMP_FILE_PREFIX \o A_v(<<"9", ".", "0">>)),
                    A_v(<<"3", ".", "0">>)>>
    /\ Len(match_out.pairs) = 1
    /\ match_out.unmatched_old_files = <<>>
    /\ match_out.unmatched_new_files = <<>>

\* ======================================================================
\* Properties of the loop of main and of the report statistics (SpecMain)
\* ======================================================================
\* C18: the results are one per pair taken, in pair order; the result of a
\* pair whose comparison raised has status 'error', the failure detail and
\* no changes, and the result of a pair whose comparison returned has
\* status 'success' and the changes returned; the two counters add up to
\* the number of results, and after the loop to the number of pairs.
C18_OneResultPerPair ==
    /\ Len(all_results) = pair_idx
    /\ success_count + error_count = Len(all_results)
    /\ \A n \in 1..Len(all_results) :
          /\ all_results[n].base_name = file_pairs[n][1]
          /\ outcomes[n].kind = "raise"
                 => /\ all_results[n].status = "error"
                    /\ all_results[n].error = outcomes[n].error
                    /\ all_results[n].changes = <<>>
          /\ outcomes[n].kind = "return"
                 => /\ all_results[n].status = "success"
                    /\ all_results[n].changes = outcomes[n].changes
    /\ mpc = "done" => Len(all_results) = Len(file_pairs)

C18_Witness ==
    /\ mpc = "done"
    /\ Len(file_pairs) = 3
    /\ outcomes[1].kind = "raise"
    /\ outcomes[2].kind = "return"
    /\ all_results[1].status = "error"
    /\ all_results[2].status = "success"
    /\ error_count >= 1
    /\ success_count >= 1

\* The sum of the values of a mapping.
RECURSIVE SumOf(_)
SumOf(f) ==
    IF DOMAIN f = {} THEN 0
    ELSE LET s == CHOOSE x \in DOMAIN f : TRUE
         IN  f[s] + SumOf([x \in DOMAIN f \ {s} |-> f[x]])

\* The changes of a sequence of results, each named by its place.
ChangePlaces(results) ==
    UNION {{<<n, k>> : k \in 1..Len(results[n].changes)} :
              n \in 1..Len(results)}

\* C19: for the results of a run, total files is their number, total
\* changes the number of their changes, success count the number of results
\* of status success and error count the rest; the per-sheet counts cover
\* the changes of all files and add up to total changes; the per-file list
\* has the base name and the change count of each result, in order.
C19_ReportStatistics ==
    mpc = "done"
        => /\ report.total_files = Len(all_results)
           /\ report.total_changes = Cardinality(ChangePlaces(all_results))
           /\ report.success_files
                  = Cardinality({n \in 1..Len(all_results) :
                                    all_results[n].status = "success"})
           /\ report.error_files
                  = report.total_files - report.success_files
           /\ report.error_files
                  = Cardinality({n \in 1..Len(all_results) :
                                    all_results[n].status = "error"})
           /\ \A p \in ChangePlaces(all_results) :
                  all_results[p[1]].changes[p[2]].sheet
                      \in DOMAIN report.sheet_stats
           /\ \A s \in DOMAIN report.sheet_stats :
                  report.sheet_stats[s]
                      = Cardinality({p \in ChangePlaces(all_results) :
                            all_results[p[1]].changes[p[2]].sheet = s})
           /\ SumOf(report.sheet_stats) = report.total_changes
           /\ Len(report.file_stats) = Len(all_results)
           /\ \A n \in 1..Len(all_results) :
                  report.file_stats[n]
                      = <<all_results[n].base_name,
                          Len(all_results[n].changes)>>

C19_Witness ==
    /\ mpc = "done"
    /\ report.total_files = 3
    /\ report.error_files = 1
    /\ report.total_changes = 4
    /\ DOMAIN report.sheet_stats = {"S1", "S2"}
    /\ report.sheet_stats["S1"] = 3

====
